---- MODULE Spec2Model ----
(***************************************************************************)
(* yavoc: the two vocabulary classes, CountVocabulary (count.py on top of  *)
(* base.py) and the standalone Vocabulary (vocabulary.py).                 *)
(*                                                                         *)
(* A str is a sequence of one-character strings, so that dumps, the line   *)
(* iteration of a text stream and str.strip are modelled on characters.    *)
(* A dict (and a collections.Counter) is the sequence of its <<key, value>>*)
(* items in insertion order.  An Optional value is <<>> for None and <<v>> *)
(* for v.  An operation that raises leaves the assignments it made before  *)
(* the raise.  to_ids reads the state only: it is an operator.             *)
(***************************************************************************)
EXTENDS Integers, Sequences, FiniteSets, TLC

VARIABLES
    cls,             \* the class of the instance
    padding,         \* self._padding
    min_count,       \* self._min_count
    max_vocab_size,  \* self._max_vocab_size   (Optional[int])
    counter,         \* self._counter          (Optional[Counter])
    token_to_index,  \* self._token_to_index   (dict)
    index_to_token,  \* self._index_to_token   (list of Optional[str])
    op,              \* history: the call that last wrote the mapping
    raised,          \* history: the exception that call raised, "" if none
    accumulated,     \* history: per token, its occurrences in the sentences fed in
    merged           \* history: per token, the sum of its counts in the merged counters

vars == <<cls, padding, min_count, max_vocab_size, counter, token_to_index,
          index_to_token, op, raised, accumulated, merged>>

-----------------------------------------------------------------------------
(* Bounds *)

MaxTotal == 3         \* token occurrences fed into the counter, in total
MaxSentenceLen == 1   \* tokens in one sentence of an update/extend batch
MaxBatch == 2         \* sentences in one update/extend batch
MaxOtherCount == 2    \* largest count in a merged counter
MaxMinCount == 2      \* largest min_count
MaxCap == 1           \* largest max_vocab_size
MaxLines == 2         \* lines in a loaded buffer
MaxQueryLen == 3      \* tokens in a to_ids sentence
MaxPadLength == 2     \* largest pad length given to to_ids
MaxId == 3            \* largest id given to to_tokens

-----------------------------------------------------------------------------
(* Values *)

None == <<>>
Some(v) == <<v>>
IsNone(o) == Len(o) = 0
Val(o) == o[1]

NL == "\n"
\* padding_token and oov_token as given to the constructor
PaddingToken == <<"P">>
OovToken == <<"U">>
TokA == <<"a">>
TokB == <<"b">>

CorpusTokens == {PaddingToken, TokA, TokB}
QueryTokens == {TokA, PaddingToken}

Max(a, b) == IF a >= b THEN a ELSE b
Min(a, b) == IF a <= b THEN a ELSE b

RECURSIVE SeqsUpTo(_, _)
SeqsUpTo(S, n) ==
    IF n = 0 THEN {<<>>}
    ELSE LET shorter == SeqsUpTo(S, n - 1)
         IN shorter \cup {Append(s, e) : s \in shorter, e \in S}

RECURSIVE Flatten(_)
Flatten(ss) == IF ss = <<>> THEN <<>> ELSE Head(ss) \o Flatten(Tail(ss))

-----------------------------------------------------------------------------
(* dict *)

dict_contains(d, k) == \E i \in 1..Len(d) : d[i][1] = k
dict_getitem(d, k) == d[CHOOSE i \in 1..Len(d) : d[i][1] = k][2]
dict_get(d, k, default) == IF dict_contains(d, k) THEN dict_getitem(d, k) ELSE default
\* d[k] = v: a present key keeps its place and takes the new value
dict_setitem(d, k, v) ==
    IF dict_contains(d, k)
    THEN [i \in 1..Len(d) |-> IF d[i][1] = k THEN <<k, v>> ELSE d[i]]
    ELSE Append(d, <<k, v>>)

(* collections.Counter *)

RECURSIVE counter_update_iterable(_, _)
counter_update_iterable(c, tokens) ==
    IF tokens = <<>> THEN c
    ELSE counter_update_iterable(
             dict_setitem(c, Head(tokens), dict_get(c, Head(tokens), 0) + 1),
             Tail(tokens))

\* dict.update in the place of Counter.update: the counts are overwritten
RECURSIVE counter_update_mapping_overwrite(_, _)
counter_update_mapping_overwrite(c, other) ==
    IF other = <<>> THEN c
    ELSE counter_update_mapping_overwrite(
             dict_setitem(c, Head(other)[1], Head(other)[2]), Tail(other))

RECURSIVE counter_update_mapping(_, _)
counter_update_mapping(c, other) ==
    IF other = <<>> THEN c
    ELSE counter_update_mapping(
             dict_setitem(c, Head(other)[1], dict_get(c, Head(other)[1], 0) + Head(other)[2]),
             Tail(other))

\* sorted(items, key=operator.itemgetter(1), reverse=True): stable
RECURSIVE sorted_by_count_desc(_)
sorted_by_count_desc(items) ==
    IF items = <<>> THEN <<>>
    ELSE LET i == CHOOSE j \in 1..Len(items) :
                      /\ \A k \in 1..Len(items) : items[k][2] <= items[j][2]
                      /\ \A k \in 1..(j - 1) : items[k][2] < items[j][2]
         IN <<items[i]>> \o
            sorted_by_count_desc(SubSeq(items, 1, i - 1) \o SubSeq(items, i + 1, Len(items)))

-----------------------------------------------------------------------------
(* CountVocabulary (count.py, base.py) *)

add_token(d, token) == dict_setitem(d, token, Len(d))

init_padding(d) == add_token(d, PaddingToken)
init_oov(d) == add_token(d, OovToken)

\* Vocabulary.init of base.py; CountVocabulary.init also empties the index
init(pad) == init_oov(IF pad THEN init_padding(<<>>) ELSE <<>>)

RECURSIVE build_loop(_, _, _, _)
build_loop(d, counts, actual_max_vocab_size, minc) ==
    IF counts = <<>> THEN d
    ELSE IF ~IsNone(actual_max_vocab_size) /\ Len(d) >= Val(actual_max_vocab_size) THEN d
    ELSE IF minc # 0 /\ Head(counts)[2] < minc
         THEN build_loop(d, Tail(counts), actual_max_vocab_size, minc)
         ELSE build_loop(add_token(d, Head(counts)[1]), Tail(counts),
                         actual_max_vocab_size, minc)

\* build(): the mapping it leaves and the exception it raises
build(pad, cnt, minc, maxv) ==
    LET d0 == init(pad)
    IN IF IsNone(cnt)
       THEN [mapping |-> d0, raised |-> "AttributeError"]
       ELSE [mapping |-> build_loop(d0, sorted_by_count_desc(Val(cnt)),
                                    IF IsNone(maxv) THEN None ELSE Some(Val(maxv) + Len(d0)),
                                    minc),
             raised |-> ""]

-----------------------------------------------------------------------------
(* Vocabulary (vocabulary.py) *)

_init(pad) ==
    LET d0 == IF pad THEN dict_setitem(<<>>, PaddingToken, 0) ELSE <<>>
    IN dict_setitem(d0, OovToken, Len(d0))

RECURSIVE _rebuild_loop(_, _, _, _)
_rebuild_loop(d, counts, actual_max_vocab_size, minc) ==
    IF counts = <<>> THEN d
    ELSE IF Len(d) >= actual_max_vocab_size THEN d
    ELSE IF minc # 0 /\ Head(counts)[2] < minc
         THEN _rebuild_loop(d, Tail(counts), actual_max_vocab_size, minc)
         ELSE _rebuild_loop(dict_setitem(d, Head(counts)[1], Len(d)), Tail(counts),
                            actual_max_vocab_size, minc)

\* _rebuild(): `len(...) >= None` is a TypeError, raised by the first pass
\* of the loop when max_vocab_size is unset
_rebuild(pad, cnt, minc, maxv) ==
    LET d0 == _init(pad)
    IN IF IsNone(cnt)
       THEN [mapping |-> d0, raised |-> "AttributeError"]
       ELSE IF IsNone(maxv)
            THEN [mapping |-> d0,
                  raised |-> IF Val(cnt) = <<>> THEN "" ELSE "TypeError"]
            ELSE [mapping |-> _rebuild_loop(d0, sorted_by_count_desc(Val(cnt)),
                                            Val(maxv) + Len(d0), minc),
                  raised |-> ""]

\* the rebuild of the instance's class
Rebuild(cnt, minc, maxv) ==
    IF cls = "CountVocabulary" THEN build(padding, cnt, minc, maxv)
    ELSE _rebuild(padding, cnt, minc, maxv)

-----------------------------------------------------------------------------
(* Inputs *)

Sentences == SeqsUpTo(CorpusTokens, MaxSentenceLen)
Batches == SeqsUpTo(Sentences, MaxBatch)

\* counter_dict of the vocabulary handed to merge_by_count
OtherCounters ==
    {None, Some(<<>>)} \cup
    {Some(<<<<t, n>>>>) : t \in CorpusTokens, n \in 1..MaxOtherCount} \cup
    {Some(<<<<p[1], n>>, <<p[2], 1>>>>) :
         p \in {q \in CorpusTokens \X CorpusTokens : q[1] # q[2]}, n \in 1..MaxOtherCount}

MinCounts == 1..MaxMinCount
OptCaps == {None} \cup {Some(n) : n \in 1..MaxCap}

\* the lines a loaded buffer yields
LoadLines == {TokA \o <<NL>>, PaddingToken \o <<NL>>}
Buffers == SeqsUpTo(LoadLines, MaxLines)

QuerySentences == SeqsUpTo(QueryTokens, MaxQueryLen)
PadLengths == 0..MaxPadLength
QueryIds == (0 - MaxId)..MaxId

-----------------------------------------------------------------------------
(* Persistence *)

\* str.strip("\n")
RECURSIVE lstrip_newlines(_)
lstrip_newlines(s) ==
    IF s # <<>> /\ Head(s) = NL THEN lstrip_newlines(Tail(s)) ELSE s
RECURSIVE rstrip_newlines(_)
rstrip_newlines(s) ==
    IF s # <<>> /\ s[Len(s)] = NL THEN rstrip_newlines(SubSeq(s, 1, Len(s) - 1)) ELSE s
strip_newlines(s) == rstrip_newlines(lstrip_newlines(s))

\* CountVocabulary: serialize_entry is the token itself; both classes write
\* the keys in dict order with "\n" between them
RECURSIVE _dump(_)
_dump(d) ==
    IF d = <<>> THEN <<>>
    ELSE IF Len(d) = 1 THEN d[1][1]
    ELSE d[1][1] \o <<NL>> \o _dump(Tail(d))

dumps(d) == _dump(d)

\* iterating a text stream: the lines, each with its line break
RECURSIVE text_lines(_, _)
text_lines(text, line) ==
    IF text = <<>> THEN (IF line = <<>> THEN <<>> ELSE <<line>>)
    ELSE IF Head(text) = NL THEN <<Append(line, NL)>> \o text_lines(Tail(text), <<>>)
    ELSE text_lines(Tail(text), Append(line, Head(text)))

\* CountVocabulary.deserialize_entry
deserialize_entry(d, entry) == add_token(d, entry)

\* base.Vocabulary.loads, after init()
RECURSIVE loads_loop(_, _)
loads_loop(d, buf) ==
    IF buf = <<>> THEN d
    ELSE loads_loop(deserialize_entry(d, strip_newlines(Head(buf))), Tail(buf))

\* vocabulary.Vocabulary.loads, after _init()
RECURSIVE _loads_loop(_, _)
_loads_loop(d, buf) ==
    IF buf = <<>> THEN d
    ELSE LET token == strip_newlines(Head(buf))
         IN IF token \notin {PaddingToken, OovToken}
            THEN _loads_loop(dict_setitem(d, token, Len(d)), Tail(buf))
            ELSE _loads_loop(d, Tail(buf))

loads_mapping(c, pad, buf) ==
    IF c = "CountVocabulary" THEN loads_loop(init(pad), buf)
    ELSE _loads_loop(_init(pad), buf)

-----------------------------------------------------------------------------
(* Codec *)

\* padding_array[: k]
slice_to(s, k) ==
    IF k >= 0 THEN SubSeq(s, 1, Min(k, Len(s)))
    ELSE SubSeq(s, 1, Max(Len(s) + k, 0))

Repeat(v, n) == [i \in 1..Max(n, 0) |-> v]

\* to_ids (the same in base.py and vocabulary.py); length is Optional[int]
to_ids(d, pad, sentences, length) ==
    LET need_oov == \E i \in 1..Len(sentences) : sentences[i] # <<>>
        need_pad == pad /\ ~IsNone(length) /\ Val(length) # 0
        ids(tokens) == [i \in 1..Len(tokens) |->
                           dict_get(d, tokens[i], dict_getitem(d, OovToken))]
        padded(tokens) ==
            IF need_pad
            THEN ids(tokens) \o
                 slice_to(Repeat(dict_getitem(d, PaddingToken), Val(length)),
                          Val(length) - Len(tokens))
            ELSE ids(tokens)
    IN IF need_oov /\ ~dict_contains(d, OovToken) THEN [raised |-> "KeyError", ret |-> <<>>]
       ELSE IF need_pad /\ ~dict_contains(d, PaddingToken)
            THEN [raised |-> "KeyError", ret |-> <<>>]
       ELSE [raised |-> "", ret |-> [i \in 1..Len(sentences) |-> padded(sentences[i])]]

\* _build_index_to_token: the list it leaves, filled up to the item that raises
RECURSIVE _build_index_fill(_, _)
_build_index_fill(lst, items) ==
    IF items = <<>> THEN [list |-> lst, raised |-> ""]
    ELSE IF Head(items)[2] >= Len(lst) THEN [list |-> lst, raised |-> "IndexError"]
    ELSE _build_index_fill([lst EXCEPT ![Head(items)[2] + 1] = Some(Head(items)[1])],
                           Tail(items))

_build_index_to_token(d) == _build_index_fill([i \in 1..Len(d) |-> None], d)

\* lst[idx] of a Python list
list_in_range(lst, idx) == 0 - Len(lst) <= idx /\ idx < Len(lst)
list_getitem(lst, idx) == IF idx >= 0 THEN lst[idx + 1] ELSE lst[Len(lst) + idx + 1]

\* the tokens of one id sentence, up to the first id that raises
RECURSIVE to_tokens_sentence(_, _, _, _)
to_tokens_sentence(lst, padding_idx, ids, remove_paddings) ==
    IF ids = <<>> THEN [raised |-> "", tokens |-> <<>>]
    ELSE IF remove_paddings /\ ~IsNone(padding_idx) /\ Head(ids) = Val(padding_idx)
         THEN to_tokens_sentence(lst, padding_idx, Tail(ids), remove_paddings)
    ELSE IF ~list_in_range(lst, Head(ids)) THEN [raised |-> "IndexError", tokens |-> <<>>]
    ELSE LET r == to_tokens_sentence(lst, padding_idx, Tail(ids), remove_paddings)
         IN [raised |-> r.raised,
             tokens |-> IF r.raised = "" THEN <<list_getitem(lst, Head(ids))>> \o r.tokens
                        ELSE <<>>]

\* to_tokens (the same in count.py and vocabulary.py): the index it leaves,
\* what it returns and what it raises
to_tokens(d, idx, id_sentences, remove_paddings) ==
    LET b == IF idx = <<>> THEN _build_index_to_token(d) ELSE [list |-> idx, raised |-> ""]
        padding_idx == IF dict_contains(d, PaddingToken)
                       THEN Some(dict_getitem(d, PaddingToken)) ELSE None
        rs == [i \in 1..Len(id_sentences) |->
                  to_tokens_sentence(b.list, padding_idx, id_sentences[i], remove_paddings)]
    IN IF b.raised # "" THEN [index |-> b.list, raised |-> b.raised, ret |-> <<>>]
       ELSE IF \E i \in 1..Len(rs) : rs[i].raised # ""
            THEN [index |-> b.list, raised |-> "IndexError", ret |-> <<>>]
       ELSE [index |-> b.list, raised |-> "", ret |-> [i \in 1..Len(rs) |-> rs[i].tokens]]

\* vocab_size (the same in base.py and vocabulary.py)
vocab_size(d) ==
    Len(d) - (IF dict_contains(d, PaddingToken) THEN 1 ELSE 0)
           - (IF dict_contains(d, OovToken) THEN 1 ELSE 0)

-----------------------------------------------------------------------------
(* Operations *)

Occ(tokens, t) == Cardinality({i \in 1..Len(tokens) : tokens[i] = t})
CountIn(cnt, t) == IF IsNone(cnt) THEN 0 ELSE dict_get(Val(cnt), t, 0)
\* what was fed into the counter so far, over all tokens
RECURSIVE SumOver(_, _)
SumOver(f, S) ==
    IF S = {} THEN 0 ELSE LET t == CHOOSE u \in S : TRUE IN f[t] + SumOver(f, S \ {t})
Total == SumOver(accumulated, CorpusTokens) + SumOver(merged, CorpusTokens)

\* the batches and the merged counters of n token occurrences at most
BatchesWithin == [n \in 0..MaxTotal |-> {b \in Batches : Len(Flatten(b)) <= n}]
OtherCountersWithin ==
    [n \in 0..MaxTotal |->
        {cd \in OtherCounters :
            SumOver([t \in CorpusTokens |-> CountIn(cd, t)], CorpusTokens) <= n}]

\* __init__ without sentences; with sentences it goes on as update(sentences)
Init ==
    /\ cls \in {"CountVocabulary", "Vocabulary"}
    /\ padding \in BOOLEAN
    /\ min_count \in MinCounts
    /\ max_vocab_size \in OptCaps
    /\ counter = None
    /\ token_to_index = <<>>
    /\ index_to_token = <<>>
    /\ op = "__init__"
    /\ raised = ""
    /\ accumulated = [t \in CorpusTokens |-> 0]
    /\ merged = [t \in CorpusTokens |-> 0]

\* the tail of every call that rebuilds: build() or _rebuild()
RebuildWith(cnt, minc, maxv) ==
    LET r == Rebuild(cnt, minc, maxv)
    IN /\ token_to_index' = r.mapping
       /\ index_to_token' = <<>>
       /\ op' = "build"
       /\ raised' = r.raised

\* CountVocabulary.update / Vocabulary.extend
update(sentences) ==
    LET c == counter_update_iterable(IF IsNone(counter) THEN <<>> ELSE Val(counter),
                                     Flatten(sentences))
    IN /\ counter' = Some(c)
       /\ RebuildWith(Some(c), min_count, max_vocab_size)
       /\ accumulated' = [t \in CorpusTokens |->
                              accumulated[t] + Occ(Flatten(sentences), t)]
       /\ UNCHANGED <<cls, padding, min_count, max_vocab_size, merged>>

\* the counter is fed MaxTotal token occurrences at most
Update == \E sentences \in BatchesWithin[MaxTotal - Total] : update(sentences)

\* merge_by_count (the same in count.py and vocabulary.py)
merge_by_count(cd) ==
    IF ~IsNone(cd) /\ Val(cd) # <<>>
    THEN LET c == counter_update_mapping(IF IsNone(counter) THEN <<>> ELSE Val(counter),
                                         Val(cd))
         IN /\ counter' = Some(c)
            /\ RebuildWith(Some(c), min_count, max_vocab_size)
            /\ merged' = [t \in CorpusTokens |-> merged[t] + CountIn(cd, t)]
            /\ UNCHANGED <<cls, padding, min_count, max_vocab_size, accumulated>>
    ELSE UNCHANGED vars

MergeByCount == \E cd \in OtherCountersWithin[MaxTotal - Total] : merge_by_count(cd)

\* CountVocabulary.min_count setter
SetMinCount ==
    /\ cls = "CountVocabulary"
    /\ \E v \in MinCounts :
        IF v # min_count
        THEN /\ min_count' = v
             /\ RebuildWith(counter, v, max_vocab_size)
             /\ UNCHANGED <<cls, padding, max_vocab_size, counter, accumulated, merged>>
        ELSE UNCHANGED vars

\* CountVocabulary.max_vocab_size setter
SetMaxVocabSize ==
    /\ cls = "CountVocabulary"
    /\ \E v \in OptCaps :
        IF v # max_vocab_size
        THEN /\ max_vocab_size' = v
             /\ RebuildWith(counter, min_count, v)
             /\ UNCHANGED <<cls, padding, min_count, counter, accumulated, merged>>
        ELSE UNCHANGED vars

\* Vocabulary.change_threshold
change_threshold(minc, maxv) ==
    LET new_min == IF ~IsNone(minc) /\ Val(minc) # min_count THEN Val(minc) ELSE min_count
        new_max == IF ~IsNone(maxv) /\ maxv # max_vocab_size THEN maxv ELSE max_vocab_size
        need_rebuild == new_min # min_count \/ new_max # max_vocab_size
    IN IF need_rebuild
       THEN /\ min_count' = new_min
            /\ max_vocab_size' = new_max
            /\ RebuildWith(counter, new_min, new_max)
            /\ UNCHANGED <<cls, padding, counter, accumulated, merged>>
       ELSE UNCHANGED vars

ChangeThreshold ==
    /\ cls = "Vocabulary"
    /\ \E minc \in {None} \cup {Some(v) : v \in MinCounts}, maxv \in OptCaps :
           change_threshold(minc, maxv)

\* loads (base.py for CountVocabulary, vocabulary.py for Vocabulary)
loads(buf) ==
    /\ token_to_index' = loads_mapping(cls, padding, buf)
    /\ index_to_token' = <<>>
    /\ op' = "loads"
    /\ raised' = ""
    /\ UNCHANGED <<cls, padding, min_count, max_vocab_size, counter, accumulated, merged>>

Loads == \E buf \in Buffers : loads(buf)

\* loads(io.StringIO(dumps())), and load(path) after dump(path): into a
\* vocabulary of the same class and configuration, whose mapping is what
\* loads leaves whatever it held before
LoadDump ==
    /\ token_to_index # <<>>
    /\ loads(text_lines(dumps(token_to_index), <<>>))

\* to_tokens: the reverse index is built when it is empty
ToTokens ==
    /\ \E ids \in QueryIds :
           index_to_token' = to_tokens(token_to_index, index_to_token, <<<<ids>>>>, TRUE).index
    /\ UNCHANGED <<cls, padding, min_count, max_vocab_size, counter, token_to_index,
                   op, raised, accumulated, merged>>

Next ==
    \/ Update
    \/ MergeByCount
    \/ SetMinCount
    \/ SetMaxVocabSize
    \/ ChangeThreshold
    \/ Loads
    \/ LoadDump
    \/ ToTokens

Spec == Init /\ [][Next]_vars

\* the calls that feed or configure the counter, without persistence and codec
NextCounter ==
    \/ Update
    \/ MergeByCount
    \/ SetMinCount
    \/ SetMaxVocabSize
    \/ ChangeThreshold

SpecCounter == Init /\ [][NextCounter]_vars

-----------------------------------------------------------------------------
(* Properties *)

MappingIds(d) == {d[i][2] : i \in 1..Len(d)}
AsMap(d) == {<<d[i][1], d[i][2]>> : i \in 1..Len(d)}
CounterKeys == IF IsNone(counter) THEN {} ELSE {Val(counter)[i][1] : i \in 1..Len(Val(counter))}
NumSpecials == IF padding THEN 2 ELSE 1

\* C1: in every reachable state the token-to-id mapping is a bijection onto
\* 0..size-1: no two tokens share an id and every id in [0, size) is held.
C1_MappingIsBijection ==
    /\ \A i, j \in 1..Len(token_to_index) :
           token_to_index[i][2] = token_to_index[j][2] => i = j
    /\ MappingIds(token_to_index) = 0..(Len(token_to_index) - 1)

\* C2: to_ids with padding enabled and a pad length L: for a sentence of n
\* tokens the output has length max(n, L), starts with the ids of the tokens
\* and continues with the padding id only.
C2_ToIdsPadsToLength ==
    \A s \in QuerySentences, L \in PadLengths :
        (/\ padding
         /\ dict_contains(token_to_index, OovToken)
         /\ dict_contains(token_to_index, PaddingToken))
        => LET r == to_ids(token_to_index, padding, <<s>>, Some(L))
               pad_id == dict_getitem(token_to_index, PaddingToken)
               oov_id == dict_getitem(token_to_index, OovToken)
           IN /\ r.raised = ""
              /\ Len(r.ret[1]) = Max(Len(s), L)
              /\ \A i \in 1..Len(s) : r.ret[1][i] = dict_get(token_to_index, s[i], oov_id)
              /\ \A i \in (Len(s) + 1)..Len(r.ret[1]) : r.ret[1][i] = pad_id

SpecialsAtReservedIds(d) ==
    /\ IF padding
       THEN /\ dict_get(d, PaddingToken, -1) = 0
            /\ dict_get(d, OovToken, -1) = 1
       ELSE /\ dict_get(d, OovToken, -1) = 0
            /\ dict_get(d, PaddingToken, -1) # 0
    /\ \A i \in 1..Len(d) :
           (d[i][1] \notin {PaddingToken, OovToken}) => d[i][2] >= NumSpecials

\* C3: loading the dump of a built vocabulary into a vocabulary of the same
\* configuration yields the same tokens at the same ids, the special tokens
\* at their reserved ids.
C3_DumpLoadRoundTrip ==
    [][(LoadDump /\ op = "build" /\ raised = "")
       => /\ AsMap(token_to_index') = AsMap(token_to_index)
          /\ SpecialsAtReservedIds(token_to_index')]_vars

\* C4: a rebuild that fails leaves the mapping as it was before the call.
C4_FailedBuildKeepsMapping ==
    [][(op' = "build" /\ raised' # "") => token_to_index' = token_to_index]_vars

\* C5: after every build the special tokens sit at their reserved ids, before
\* any learned token: padding 0 and oov 1 with padding enabled, oov 0 with
\* padding disabled.
C5_SpecialsReservedAfterBuild ==
    op = "build" => SpecialsAtReservedIds(token_to_index)

EligibleTokens ==
    {t \in CounterKeys \ {PaddingToken, OovToken} : CountIn(counter, t) >= min_count}

\* C6: after any build vocab_size is the number of counted tokens with count
\* >= min_count, capped at max_vocab_size when that is set and uncapped when
\* it is unset; the special tokens are not counted.
C6_VocabSizeAfterBuild ==
    op = "build" =>
        vocab_size(token_to_index) =
            IF IsNone(max_vocab_size) THEN Cardinality(EligibleTokens)
            ELSE Min(Cardinality(EligibleTokens), Val(max_vocab_size))

\* the mapping the build algorithm yields: the specials, then the tokens with
\* count >= min_count by descending count, ties in counter order, capped
ExpectedMapping ==
    LET items == Val(counter)
        eligible == {i \in 1..Len(items) : items[i][2] >= min_count}
        rank(i) == Cardinality({j \in eligible :
                       \/ items[j][2] > items[i][2]
                       \/ items[j][2] = items[i][2] /\ j < i})
        kept == {i \in eligible : IsNone(max_vocab_size) \/ rank(i) < Val(max_vocab_size)}
    IN (IF padding THEN {<<PaddingToken, 0>>, <<OovToken, 1>>} ELSE {<<OovToken, 0>>})
       \cup {<<items[i][1], NumSpecials + rank(i)>> : i \in kept}

\* C7: after every operation that mutates the counter, min_count or
\* max_vocab_size, the mapping is the one the build algorithm yields from the
\* current counter and configuration.
C7_MappingFollowsBuild ==
    (op = "build" /\ ~IsNone(counter)) => AsMap(token_to_index) = ExpectedMapping

\* C8: in any state with a mapping, to_tokens(to_ids(sentences)) returns,
\* position by position, the token itself when the mapping holds it and the
\* oov token otherwise (paddings kept: remove_paddings = False).
C8_CodecRoundTrip ==
    \A s \in QuerySentences :
        dict_contains(token_to_index, OovToken)
        => LET ids == to_ids(token_to_index, padding, <<s>>, None)
               r == to_tokens(token_to_index, index_to_token, ids.ret, FALSE)
           IN /\ ids.raised = ""
              /\ r.raised = ""
              /\ r.ret = <<[i \in 1..Len(s) |->
                              Some(IF dict_contains(token_to_index, s[i])
                                   THEN s[i] ELSE OovToken)]>>

\* C9: the counter's count of every token is its number of occurrences in
\* the accumulated sentences plus the sum of its counts in the merged
\* counters, and no step decreases the count of any token.
C9_CounterCounts ==
    /\ [](\A t \in CorpusTokens : CountIn(counter, t) = accumulated[t] + merged[t])
    /\ [][\A t \in CorpusTokens : CountIn(counter', t) >= CountIn(counter, t)]_vars

\* a token that both update and merge_by_count have counted
C9_Witness ==
    \E t \in CorpusTokens :
        /\ accumulated[t] > 0
        /\ merged[t] > 0
        /\ CountIn(counter, t) = accumulated[t] + merged[t]

\* C10: to_tokens raises the out-of-range error for every id that no token
\* of the mapping has, negative ids included.
C10_ToTokensOutOfRange ==
    \A id \in QueryIds, remove_paddings \in BOOLEAN :
        (id \notin MappingIds(token_to_index))
        => to_tokens(token_to_index, index_to_token, <<<<id>>>>, remove_paddings).raised
               = "IndexError"

====
